---- MODULE Spec2Model ----
(***************************************************************************)
(* Ingestion pipelines of brian-clone: the sentence chunker, the YouTube   *)
(* transcript sync (api/youtube-transcripts/index.py) and the fetch stage  *)
(* of the Medium article scrapers.                                         *)
(*                                                                         *)
(* The specifications that share the module:                             *)
(*   SpecChunk     chunk_text_with_overlap, one loop iteration per step    *)
(*   Spec          consecutive runs of sync_transcripts behind the HTTP    *)
(*                 handler, against one Qdrant collection                  *)
(*   SpecArticles  the four article entry points, fetch then upload        *)
(*   SpecFetch     fetch_transcript_text, one method call per step         *)
(*   SpecScan      get_existing_transcript_video_ids, one scroll per step  *)
(*   SpecOverlap   two runs of sync_transcripts at the same time on one    *)
(*                 collection                                              *)
(*   SpecPool      fetch_transcripts_batched, one worker step per step     *)
(*   SpecHttp      one request to an HTTP entry point and its              *)
(*                 authorization test                                      *)
(***************************************************************************)
EXTENDS Integers, Sequences, FiniteSets, TLC

VARIABLES
    \* chunk_text_with_overlap: its arguments, its locals, its position
    text, max_chunk_size, sentences, si, chunks, current_chunk, current_length, cpc,
    \* the Qdrant collection brian-transcripts and the runs made against it
    store, run, pc, response, calls, missing_env,
    \* sync_transcripts: its locals
    recent, existing_ids, new_videos, skipped_existing, fi, transcript_rows,
    failed_videos, chunk_rows, uploaded_videos, ei, points, ui, embed_log, upsert_log,
    \* the article scrapers: the entry point run, its locals, its position
    entry, urls, ai, fetched, scraped_articles, results, ak, apc,
    \* its test_mode argument, the chunks it embedded and the points it wrote
    \* (url and chunk index), the exceptions its upload loop caught
    test_mode, aembedded, apoints, caught,
    \* fetch_transcript_text: its argument, what each method would answer,
    \* the methods called so far, its return value, its position
    fvideo, fprimary, ffallback, fattempts, fresult, fpc,
    \* get_existing_transcript_video_ids: the collection scrolled, its locals
    collection, offset, seen, requested, total_processed, spc,
    \* two overlapping runs of sync_transcripts on one collection
    ostore, orecent, opc, onew, opoints, oui, overlapped,
    \* fetch_transcripts_batched and its thread pool
    pvideos, pbi, pqueue, prunning, pslots, pwrites, pcompleted, prows, pfailed, ppc,
    \* one request to an HTTP entry point: the entry point, the CRON_SECRET of
    \* the environment, the Authorization header, the status answered,
    \* whether the pipeline was called, the handler's position
    hentry, hsecret, hheader, hstatus, hran, hpc

chunkVars == <<text, max_chunk_size, sentences, si, chunks, current_chunk, current_length, cpc>>

syncLocals == <<recent, existing_ids, new_videos, skipped_existing, fi, transcript_rows,
                failed_videos, chunk_rows, uploaded_videos, ei, points, ui,
                embed_log, upsert_log>>

pipeVars == <<store, run, pc, response, calls, missing_env, syncLocals>>

artVars == <<entry, urls, ai, fetched, scraped_articles, results, ak, apc,
             test_mode, aembedded, apoints, caught>>

fetchVars == <<fvideo, fprimary, ffallback, fattempts, fresult, fpc>>

scanVars == <<collection, offset, seen, requested, total_processed, spc>>

ovVars == <<ostore, orecent, opc, onew, opoints, oui, overlapped>>

poolVars == <<pvideos, pbi, pqueue, prunning, pslots, pwrites, pcompleted, prows, pfailed, ppc>>

httpVars == <<hentry, hsecret, hheader, hstatus, hran, hpc>>

auxVars == <<fetchVars, scanVars, ovVars, poolVars, httpVars>>

vars == <<chunkVars, pipeVars, artVars, auxVars>>

----------------------------------------------------------------------------
(* Bounds of the chunker's inputs *)

MaxTextLen == 6
MaxChunkSize == 5

Alphabet == {"a", ".", " "}

Texts == UNION {[1..n -> Alphabet] : n \in 0..MaxTextLen}

----------------------------------------------------------------------------
(* Strings are sequences of one-character strings. *)

IsPunct(c) == c \in {".", "!", "?"}

IsSpace(c) == c \in {" ", "\n", "\t"}

Last(s) == s[Len(s)]

RECURSIVE SkipSpace(_, _)
SkipSpace(t, i) ==
    IF i <= Len(t) /\ IsSpace(t[i]) THEN SkipSpace(t, i + 1) ELSE i

\* re.split(r"(?<=[.!?])\s+", t): cut at every whitespace run that directly
\* follows '.', '!' or '?'; the run itself is dropped.
RECURSIVE ReSplit(_, _, _)
ReSplit(t, i, piece) ==
    IF i > Len(t) THEN <<piece>>
    ELSE IF IsSpace(t[i]) /\ i > 1 /\ IsPunct(t[i - 1])
         THEN <<piece>> \o ReSplit(t, SkipSpace(t, i), <<>>)
         ELSE ReSplit(t, i + 1, Append(piece, t[i]))

RECURSIVE LStrip(_)
LStrip(s) == IF s # <<>> /\ IsSpace(Head(s)) THEN LStrip(Tail(s)) ELSE s

RECURSIVE RStrip(_)
RStrip(s) ==
    IF s # <<>> /\ IsSpace(Last(s)) THEN RStrip(SubSeq(s, 1, Len(s) - 1)) ELSE s

\* str.strip()
Strip(s) == RStrip(LStrip(s))

\* sentences = [s.strip() for s in re.split(...) if s.strip()]
SplitSentences(t) ==
    LET pieces == ReSplit(t, 1, <<>>)
        stripped == [k \in 1..Len(pieces) |-> Strip(pieces[k])]
    IN  SelectSeq(stripped, LAMBDA s : s # <<>>)

\* " ".join(parts)
RECURSIVE Join(_)
Join(parts) ==
    IF parts = <<>> THEN <<>>
    ELSE IF Len(parts) = 1 THEN parts[1]
    ELSE parts[1] \o <<" ">> \o Join(Tail(parts))

----------------------------------------------------------------------------
(* chunk_text_with_overlap, the transcript pipeline's copy *)

\* if current_length + sentence_length > max_chunk_size and current_chunk
\* An overflow test that counts the joining space twice.
OverflowsEarly(cur_len, sentence, size, cur_chunk) ==
    cur_len + Len(sentence) + 2 > size /\ cur_chunk # <<>>

Overflows(cur_len, sentence, size, cur_chunk) ==
    cur_len + Len(sentence) > size /\ cur_chunk # <<>>

\* A reseed that forgets the overlap sentence.
ReseedNoOverlap(cur_chunk, sentence) == <<sentence>>

\* A reseed that keeps the overlap sentence and drops the new one.
ReseedOverlapOnly(cur_chunk, sentence) == <<Last(cur_chunk)>>

\* current_chunk = [last_sentence, sentence]
Reseed(cur_chunk, sentence) == <<Last(cur_chunk), sentence>>

\* A reseed length that forgets the joining space.
ReseedLengthNoSpace(cur_chunk, sentence) == Len(Last(cur_chunk)) + Len(sentence)

\* current_length = len(last_sentence) + sentence_length + 1
ReseedLength(cur_chunk, sentence) == Len(Last(cur_chunk)) + Len(sentence) + 1

\* current_length += sentence_length + (1 if len(current_chunk) > 1 else 0)
AppendLength(cur_len, cur_chunk, sentence) ==
    cur_len + Len(sentence) + (IF Len(cur_chunk) + 1 > 1 THEN 1 ELSE 0)

\* A chunk numbered from one.
CloseChunkFromOne(chs, cur_chunk) ==
    Append(chs, [text |-> Join(cur_chunk), index |-> Len(chs) + 1,
                 total_chunks |-> -1, parts |-> cur_chunk])

\* chunks.append({"text": " ".join(current_chunk), "index": len(chunks)})
\* The sentences of the chunk are kept beside its text.
CloseChunk(chs, cur_chunk) ==
    Append(chs, [text |-> Join(cur_chunk), index |-> Len(chs),
                 total_chunks |-> -1, parts |-> cur_chunk])

\* The chunker before a call, for the specifications that do not run it.
ChunkIdle ==
    /\ text = <<>>
    /\ max_chunk_size = 1
    /\ sentences = <<>>
    /\ si = 0
    /\ chunks = <<>>
    /\ current_chunk = <<>>
    /\ current_length = 0
    /\ cpc = "idle"

InitChunk ==
    /\ text \in Texts
    /\ max_chunk_size \in 1..MaxChunkSize
    /\ sentences = <<>>
    /\ si = 0
    /\ chunks = <<>>
    /\ current_chunk = <<>>
    /\ current_length = 0
    /\ cpc = "split"

\* lines 66-73: split, strip, drop the empty pieces; no sentence, no chunk.
ChunkSplit ==
    /\ cpc = "split"
    /\ sentences' = SplitSentences(text)
    /\ si' = 1
    /\ cpc' = IF SplitSentences(text) = <<>> THEN "done" ELSE "loop"
    /\ UNCHANGED <<text, max_chunk_size, chunks, current_chunk, current_length>>
    /\ UNCHANGED <<pipeVars, artVars, auxVars>>

\* lines 75-84: one iteration of the for loop.
ChunkStep ==
    /\ cpc = "loop"
    /\ si <= Len(sentences)
    /\ LET sentence == sentences[si] IN
       \/ /\ Overflows(current_length, sentence, max_chunk_size, current_chunk)
          /\ chunks' = CloseChunk(chunks, current_chunk)
          /\ current_chunk' = Reseed(current_chunk, sentence)
          /\ current_length' = ReseedLength(current_chunk, sentence)
       \/ /\ ~Overflows(current_length, sentence, max_chunk_size, current_chunk)
          /\ current_chunk' = Append(current_chunk, sentence)
          /\ current_length' = AppendLength(current_length, current_chunk, sentence)
          /\ UNCHANGED chunks
    /\ si' = si + 1
    /\ UNCHANGED <<text, max_chunk_size, sentences, cpc>>
    /\ UNCHANGED <<pipeVars, artVars, auxVars>>

\* lines 86-92: flush the open chunk, then stamp total_chunks on every chunk.
ChunkFinish ==
    /\ cpc = "loop"
    /\ si > Len(sentences)
    /\ LET flushed == IF current_chunk # <<>>
                      THEN CloseChunk(chunks, current_chunk) ELSE chunks
       IN  chunks' = [k \in 1..Len(flushed) |->
                         [flushed[k] EXCEPT !.total_chunks = Len(flushed)]]
    /\ cpc' = "done"
    /\ UNCHANGED <<text, max_chunk_size, sentences, si, current_chunk, current_length>>
    /\ UNCHANGED <<pipeVars, artVars, auxVars>>

NextChunk == ChunkSplit \/ ChunkStep \/ ChunkFinish

----------------------------------------------------------------------------
(* chunk_text_with_overlap, the copy of the four article pipelines         *)
(* (api/medium-articles.py, api/scrape-medium-articles/index.py,           *)
(* app/python/api/scrape-medium-articles/index.py and                      *)
(* scripts/python/crawl_medium.py hold the same text), computed as a pass  *)
(* over the sentences.  The loop's state is chunks, current_chunk and      *)
(* current_length.                                                         *)

\* A guard that tests the overlap sentence the wrong way round.
ArticleReseedInverted(cur_chunk, sentence) ==
    LET last_sentence == IF cur_chunk # <<>> THEN Last(cur_chunk) ELSE <<>>
    IN  IF last_sentence # <<>> THEN <<sentence>> ELSE <<last_sentence, sentence>>

\* last_sentence = current_chunk[-1] if current_chunk else ""
\* current_chunk = [last_sentence, sentence] if last_sentence else [sentence]
ArticleReseed(cur_chunk, sentence) ==
    LET last_sentence == IF cur_chunk # <<>> THEN Last(cur_chunk) ELSE <<>>
    IN  IF last_sentence # <<>> THEN <<last_sentence, sentence>> ELSE <<sentence>>

\* current_length = len(last_sentence) + sentence_length + 1
ArticleReseedLength(cur_chunk, sentence) ==
    LET last_sentence == IF cur_chunk # <<>> THEN Last(cur_chunk) ELSE <<>>
    IN  Len(last_sentence) + Len(sentence) + 1

\* One iteration of the for loop.
ArticleIteration(st, sentence, size) ==
    IF st.current_length + Len(sentence) > size /\ st.current_chunk # <<>>
    THEN [chunks |-> Append(st.chunks,
                        [text |-> Join(st.current_chunk), index |-> Len(st.chunks)]),
          current_chunk |-> ArticleReseed(st.current_chunk, sentence),
          current_length |-> ArticleReseedLength(st.current_chunk, sentence)]
    ELSE [chunks |-> st.chunks,
          current_chunk |-> Append(st.current_chunk, sentence),
          current_length |-> st.current_length + Len(sentence)
                               + (IF Len(st.current_chunk) + 1 > 1 THEN 1 ELSE 0)]

\* The for loop from the i-th sentence on.
RECURSIVE ArticleLoop(_, _, _, _)
ArticleLoop(st, sents, i, size) ==
    IF i > Len(sents) THEN st
    ELSE ArticleLoop(ArticleIteration(st, sents[i], size), sents, i + 1, size)

\* The whole function: split, loop, flush, stamp total_chunks.
ArticleChunkText(t, size) ==
    LET sents == SplitSentences(t)
        st == ArticleLoop([chunks |-> <<>>, current_chunk |-> <<>>, current_length |-> 0],
                          sents, 1, size)
        flushed == IF st.current_chunk # <<>>
                   THEN Append(st.chunks,
                            [text |-> Join(st.current_chunk), index |-> Len(st.chunks)])
                   ELSE st.chunks
    IN  IF sents = <<>> THEN <<>>
        ELSE [k \in 1..Len(flushed) |->
                 [text |-> flushed[k].text, index |-> flushed[k].index,
                  total_chunks |-> Len(flushed)]]

----------------------------------------------------------------------------
(* The transcript sync: api/youtube-transcripts/index.py                   *)
(*                                                                         *)
(* A video is its id; its title and publishedAt ride along unchanged.  A   *)
(* transcript text is the number of chunks chunk_text_with_overlap cuts    *)
(* "# title\n\n" + text into (at least one: the heading is a sentence), 0  *)
(* standing for None.  uuid4 values are <<run, position>> pairs.           *)

\* Bounds of the runs
NumVideos == 3
MaxRuns == 3

\* Batch sizes, scaled down so that a run of NumVideos videos spans several
\* batches (the source sets 5, 32 and 64 at lines 29, 31 and 32).
TRANSCRIPT_BATCH_SIZE == 2
EMBEDDING_BATCH_SIZE == 2
QDRANT_UPSERT_BATCH_SIZE == 3

ChunkCounts == {1, 2}

Videos == 1..NumVideos

Min(a, b) == IF a <= b THEN a ELSE b

\* What discovery can hand over: recent videos in playlist order, each once.
RecentLists ==
    {SelectSeq([v \in 1..NumVideos |-> v], LAMBDA v : v \in S) : S \in SUBSET Videos}

RequiredEnv == {"QDRANT_URL", "OPENAI_API_KEY", "YOUTUBE_API_KEY"}

NoCalls ==
    [discover |-> 0, scan |-> 0, fetch |-> 0, primary |-> 0, fallback |-> 0,
     embed |-> 0, upsert |-> 0]

\* The variable whose absence stops the run: get_qdrant_client tests
\* QDRANT_URL (line 38), then get_openai_client OPENAI_API_KEY (line 52),
\* then fetch_channel_videos YOUTUBE_API_KEY (line 102).
FirstMissing(missing) ==
    IF "QDRANT_URL" \in missing THEN "QDRANT_URL"
    ELSE IF "OPENAI_API_KEY" \in missing THEN "OPENAI_API_KEY"
    ELSE "YOUTUBE_API_KEY"

\* A YOUTUBE_API_KEY test placed behind the channels request.
CallsKeyTestedLate(key) ==
    IF key = "YOUTUBE_API_KEY" THEN [NoCalls EXCEPT !.discover = 1] ELSE NoCalls

\* The requests made before the ValueError of a missing variable: each test
\* stands before the first request of its function.
CallsAtConfigError(key) == NoCalls

\* What one transcript method does: returns a text of 200 characters or
\* more, returns a shorter one, or raises.
MethodOutcomes ==
    {[kind |-> "ok", text |-> n] : n \in ChunkCounts}
        \cup {[kind |-> "short", text |-> 0], [kind |-> "raise", text |-> 0]}

\* A scan that comes back with nothing.
ExistingIdsNone(st) == {}

\* A scan that tests the content type against the wrong tag.
ExistingIdsWrongTag(st) ==
    {p.youtubeVideoId : p \in {q \in st : q.contentType = "article"}}

\* get_existing_transcript_video_ids: the ids of the transcript points.
ExistingIds(st) ==
    {p.youtubeVideoId : p \in {q \in st : q.contentType = "transcript"}}

\* A filter that lets every recent video through.
NewVideosNoDedup(rec, existing) == rec

\* new_videos = [v for v in recent if v["id"] not in existing_ids]
NewVideos(rec, existing) == SelectSeq(rec, LAMBDA v : v \notin existing)

\* A count that forgets to take the new videos off.
SkippedIsRecent(rec, new) == Len(rec)

\* skipped_existing = len(recent) - len(new_videos)
SkippedExisting(rec, new) == Len(rec) - Len(new)

\* A primary method called again after it raised.
MethodsCalledRetry(primary) ==
    IF primary.kind = "raise" THEN <<"get_transcript", "get_transcript", "fetch">>
    ELSE <<"get_transcript">>

\* The library methods one call of fetch_transcript_text invokes: the
\* second try block (line 218) is reached only from the except of the first.
MethodsCalled(primary) ==
    IF primary.kind = "raise" THEN <<"get_transcript", "fetch">>
    ELSE <<"get_transcript">>

\* How often a batch of calls invoked the given method.
Invocations(primary, method) ==
    Cardinality({kj \in (DOMAIN primary) \X (1..3) :
                    /\ kj[2] <= Len(MethodsCalled(primary[kj[1]]))
                    /\ MethodsCalled(primary[kj[1]])[kj[2]] = method})

\* fetch_transcript_text: (text, error) of the primary method, then of the
\* fallback when the primary raised.  "" stands for an error of None.
FetchTranscriptText(primary, fallback) ==
    IF primary.kind = "ok" THEN [text |-> primary.text, error |-> ""]
    ELSE IF primary.kind = "short" THEN [text |-> 0, error |-> "Transcript too short"]
    ELSE IF fallback.kind = "ok" THEN [text |-> fallback.text, error |-> ""]
    ELSE IF fallback.kind = "short" THEN [text |-> 0, error |-> "Transcript too short"]
    ELSE [text |-> 0, error |-> "TranscriptsDisabled: no transcript"]

\* The entry of failed_videos (lines 247-254).
FailedEntry(video, result) ==
    [id |-> video, status |-> "failed",
     error |-> IF result.error # "" THEN result.error
               ELSE "Unknown transcript fetch error"]

\* The positions of a batch whose fetch gave a text / gave none.
Fetched(rs) ==
    SelectSeq([k \in 1..Len(rs) |-> k], LAMBDA k : rs[k].text # 0)

NotFetched(rs) ==
    SelectSeq([k \in 1..Len(rs) |-> k], LAMBDA k : rs[k].text = 0)

\* A zip loop that stops at the first failed video of the batch.
BatchRowsUntilFailure(batch, rs) ==
    LET firstBad == IF NotFetched(rs) = <<>> THEN Len(batch) + 1
                    ELSE NotFetched(rs)[1]
        kept == SelectSeq(Fetched(rs), LAMBDA k : k < firstBad)
    IN  [j \in 1..Len(kept) |-> [id |-> batch[kept[j]], text |-> rs[kept[j]].text]]

\* A zip loop that reports the failed videos of a batch last to first.
BatchFailedReversed(batch, rs) ==
    [j \in 1..Len(NotFetched(rs)) |->
        FailedEntry(batch[NotFetched(rs)[Len(NotFetched(rs)) + 1 - j]],
                    rs[NotFetched(rs)[Len(NotFetched(rs)) + 1 - j]])]

\* The zip loop of fetch_transcripts_batched over one batch (lines 244-263).
BatchRows(batch, rs) ==
    [j \in 1..Len(Fetched(rs)) |->
        [id |-> batch[Fetched(rs)[j]], text |-> rs[Fetched(rs)[j]].text]]

BatchFailed(batch, rs) ==
    [j \in 1..Len(NotFetched(rs)) |->
        FailedEntry(batch[NotFetched(rs)[j]], rs[NotFetched(rs)[j]])]

\* A base id drawn once, before the loop over the rows.
BaseIdPerRun(r, j) == <<r, 0>>

\* base_id = str(uuid.uuid4()), for the j-th transcript row of a run
BaseId(r, j) == <<r, j>>

\* id=str(uuid.uuid4()), for the k-th point of a run
PointId(r, k) == <<r, k>>

\* Chunk rows numbered from one.
ChunkRowsOfFromOne(row, base) ==
    [c \in 1..row.text |->
        [contentType |-> "transcript", baseId |-> base, chunkIndex |-> c,
         totalChunks |-> row.text, youtubeVideoId |-> row.id]]

\* The chunk rows of one transcript row (lines 284-301).
ChunkRowsOf(row, base) ==
    [c \in 1..row.text |->
        [contentType |-> "transcript", baseId |-> base, chunkIndex |-> c - 1,
         totalChunks |-> row.text, youtubeVideoId |-> row.id]]

RECURSIVE BuildChunkRows(_, _, _)
BuildChunkRows(rows, r, j) ==
    IF j > Len(rows) THEN <<>>
    ELSE ChunkRowsOf(rows[j], BaseId(r, j)) \o BuildChunkRows(rows, r, j + 1)

\* An uploaded list that leaves out the documents of one chunk.
BuildUploadedLong(rows) ==
    LET long == SelectSeq(rows, LAMBDA row : row.text > 1)
    IN  [j \in 1..Len(long) |-> [id |-> long[j].id, status |-> "uploaded", chunks |-> long[j].text]]

\* The entries of uploaded_videos (lines 303-310).
BuildUploaded(rows) ==
    [j \in 1..Len(rows) |-> [id |-> rows[j].id, status |-> "uploaded", chunks |-> rows[j].text]]

\* PointStruct(id=..., vector=vector, payload=row["payload"]); the vector is
\* named by the position of the chunk text it embeds.
Point(pid, row, v) == [id |-> pid, vector |-> v, payload |-> row]

\* Embedding batches that run one chunk into the next batch.
EmbedSliceOverlong(rows, i) ==
    SubSeq(rows, i + 1, Min(i + EMBEDDING_BATCH_SIZE + 1, Len(rows)))

\* batch = chunk_rows[i : i + EMBEDDING_BATCH_SIZE]
EmbedSlice(rows, i) ==
    SubSeq(rows, i + 1, Min(i + EMBEDDING_BATCH_SIZE, Len(rows)))

\* An upsert after every embedding batch.
AfterEmbedInterleaved(i, n) == "upsert"

\* Where the run stands after the embedding batch at i of n chunk rows: the
\* for loop of lines 321-341 ends before the loop of line 344 begins.
AfterEmbed(i, n) == IF i + EMBEDDING_BATCH_SIZE >= n THEN "upsert" ELSE "embed"

\* An upsert loop that does not end with its range.
AfterUpsertLoops(i, n) == "upsert"

\* Where the run stands after the upsert at i of n points (lines 344, 389).
AfterUpsert(i, n) == IF i + QDRANT_UPSERT_BATCH_SIZE >= n THEN "return" ELSE "upsert"

\* Upserts that send the points from the first one on again.
UpsertSliceFromStart(pts, i) ==
    SubSeq(pts, 1, Min(i + QDRANT_UPSERT_BATCH_SIZE, Len(pts)))

\* A slice that runs one point into the next batch.
UpsertSliceOverlong(pts, i) ==
    SubSeq(pts, i + 1, Min(i + QDRANT_UPSERT_BATCH_SIZE + 1, Len(pts)))

\* points[i : i + QDRANT_UPSERT_BATCH_SIZE]
UpsertSlice(pts, i) ==
    SubSeq(pts, i + 1, Min(i + QDRANT_UPSERT_BATCH_SIZE, Len(pts)))

\* A result that reports no skipped video.
RunResultNoSkipped(uploaded, skipped, failed) ==
    [status |-> 200, uploaded |-> Len(uploaded), skipped |-> 0,
     failed |-> Len(failed), videos |-> uploaded \o failed]

\* The body of a 200 response: the dict sync_transcripts returns.
RunResult(uploaded, skipped, failed) ==
    [status |-> 200, uploaded |-> Len(uploaded), skipped |-> skipped,
     failed |-> Len(failed), videos |-> uploaded \o failed]

\* The body of the 500 response the handler builds from an exception.
ErrorResponse(stage, details) ==
    [status |-> 500, error |-> "Failed to sync YouTube transcripts",
     details |-> details, stage |-> stage]

SyncIdle ==
    /\ store = {}
    /\ run = 0
    /\ pc = "done"
    /\ response = [status |-> 0]
    /\ calls = NoCalls
    /\ missing_env = {}
    /\ recent = <<>>
    /\ existing_ids = {}
    /\ new_videos = <<>>
    /\ skipped_existing = 0
    /\ fi = 0
    /\ transcript_rows = <<>>
    /\ failed_videos = <<>>
    /\ chunk_rows = <<>>
    /\ uploaded_videos = <<>>
    /\ ei = 0
    /\ points = <<>>
    /\ ui = 0
    /\ embed_log = <<>>
    /\ upsert_log = <<>>

\* The locals a run has not assigned.
FreshLocals ==
    /\ fi' = 0
    /\ transcript_rows' = <<>>
    /\ failed_videos' = <<>>
    /\ chunk_rows' = <<>>
    /\ uploaded_videos' = <<>>
    /\ ei' = 0
    /\ points' = <<>>
    /\ ui' = 0
    /\ embed_log' = <<>>
    /\ upsert_log' = <<>>

NoNewVideos ==
    /\ recent' = <<>>
    /\ existing_ids' = {}
    /\ new_videos' = <<>>
    /\ skipped_existing' = 0

\* The exception leaves sync_transcripts; youtube_transcripts answers 500.
Fails(stage, details) ==
    /\ pc' = "done"
    /\ response' = ErrorResponse(stage, details)

\* A request arrives: youtube_transcripts -> sync_transcripts, up to the
\* return of get_new_videos (lines 355-373, 189-202, 99-154, 157-186).
SyncStart ==
    /\ pc = "done"
    /\ run < MaxRuns
    /\ run' = run + 1
    /\ FreshLocals
    /\ UNCHANGED <<store, chunkVars, artVars, auxVars>>
    /\ \/ \E missing \in (SUBSET RequiredEnv) \ {{}} :
            /\ missing_env' = missing
            /\ Fails("config", FirstMissing(missing) \o " is required")
            /\ calls' = CallsAtConfigError(FirstMissing(missing))
            /\ NoNewVideos
       \/ /\ missing_env' = {}
          /\ Fails("discovery", "HTTPError")
          /\ calls' = [NoCalls EXCEPT !.discover = 1]
          /\ NoNewVideos
       \/ /\ missing_env' = {}
          /\ Fails("scan", "ResponseHandlingException")
          /\ calls' = [NoCalls EXCEPT !.discover = 1, !.scan = 1]
          /\ NoNewVideos
       \/ \E rec \in RecentLists :
            /\ missing_env' = {}
            /\ recent' = rec
            /\ existing_ids' = ExistingIds(store)
            /\ new_videos' = NewVideos(rec, ExistingIds(store))
            /\ skipped_existing' = SkippedExisting(rec, NewVideos(rec, ExistingIds(store)))
            /\ calls' = [NoCalls EXCEPT !.discover = 1, !.scan = 1]
            /\ IF NewVideos(rec, ExistingIds(store)) = <<>>
               THEN /\ pc' = "done"
                    /\ response' = RunResult(<<>>, Len(rec), <<>>)
               ELSE /\ pc' = "fetch"
                    /\ response' = [status |-> 0]

\* One batch of fetch_transcripts_batched (lines 238-263): the pool fetches
\* every video of the batch, then the zip loop sorts the rs.
FetchBatch ==
    /\ pc = "fetch"
    /\ fi < Len(new_videos)
    /\ LET batch == SubSeq(new_videos, fi + 1, Min(fi + TRANSCRIPT_BATCH_SIZE, Len(new_videos)))
       IN  \E primary, fallback \in [1..Len(batch) -> MethodOutcomes] :
              \* the fallback has an answer only where it is called
              /\ \A k \in 1..Len(batch) :
                    primary[k].kind # "raise" => fallback[k] = primary[k]
              /\ LET rs == [k \in 1..Len(batch) |->
                                 FetchTranscriptText(primary[k], fallback[k])]
                 IN  /\ transcript_rows' = transcript_rows \o BatchRows(batch, rs)
                     /\ failed_videos' = failed_videos \o BatchFailed(batch, rs)
                     /\ calls' = [calls EXCEPT
                                    !.fetch = @ + Len(batch),
                                    !.primary = @ + Invocations(primary, "get_transcript"),
                                    !.fallback = @ + Invocations(primary, "fetch")]
    /\ fi' = fi + TRANSCRIPT_BATCH_SIZE
    /\ pc' = IF fi + TRANSCRIPT_BATCH_SIZE >= Len(new_videos) THEN "build" ELSE "fetch"
    /\ UNCHANGED <<store, run, missing_env, response, recent, existing_ids, new_videos,
                   skipped_existing, chunk_rows, uploaded_videos, ei, points, ui,
                   embed_log, upsert_log, chunkVars, artVars, auxVars>>

\* build_chunks_for_qdrant (lines 268-312), then `if chunk_rows` (line 383).
BuildChunks ==
    /\ pc = "build"
    /\ chunk_rows' = BuildChunkRows(transcript_rows, run, 1)
    /\ uploaded_videos' = BuildUploaded(transcript_rows)
    /\ pc' = IF BuildChunkRows(transcript_rows, run, 1) # <<>> THEN "embed" ELSE "return"
    /\ UNCHANGED <<store, run, missing_env, response, calls, recent, existing_ids, new_videos,
                   skipped_existing, fi, transcript_rows, failed_videos, ei, points, ui,
                   embed_log, upsert_log, chunkVars, artVars, auxVars>>

\* One embedding batch of embed_and_upsert_batched (lines 321-341).
EmbedBatch ==
    /\ pc = "embed"
    /\ ei < Len(chunk_rows)
    /\ calls' = [calls EXCEPT !.embed = @ + 1]
    /\ LET batch == EmbedSlice(chunk_rows, ei)
       IN  /\ embed_log' = Append(embed_log, [k \in 1..Len(batch) |-> ei + k])
           /\ \/ /\ Fails("embedding", "APIConnectionError")
                 /\ UNCHANGED <<points, ei>>
              \/ /\ points' = points \o
                       [k \in 1..Len(batch) |->
                           Point(PointId(run, Len(points) + k), batch[k], ei + k)]
                 /\ ei' = ei + EMBEDDING_BATCH_SIZE
                 /\ pc' = AfterEmbed(ei, Len(chunk_rows))
                 /\ UNCHANGED response
    /\ UNCHANGED <<store, run, missing_env, recent, existing_ids, new_videos, skipped_existing, fi,
                   transcript_rows, failed_videos, chunk_rows, uploaded_videos, ui, upsert_log,
                   chunkVars, artVars, auxVars>>

\* One qdrant.upsert of embed_and_upsert_batched (lines 344-351): the call
\* writes its whole batch or raises and writes nothing.
UpsertBatch ==
    /\ pc = "upsert"
    /\ ui < Len(points)
    /\ calls' = [calls EXCEPT !.upsert = @ + 1]
    /\ LET batch == UpsertSlice(points, ui)
       IN  /\ upsert_log' = Append(upsert_log, [k \in 1..Len(batch) |-> batch[k].id])
           /\ \/ /\ Fails("persistence", "UnexpectedResponse")
                 /\ UNCHANGED <<store, ui>>
              \/ /\ store' = store \cup {batch[k].payload @@ [id |-> batch[k].id] : k \in 1..Len(batch)}
                 /\ ui' = ui + QDRANT_UPSERT_BATCH_SIZE
                 /\ pc' = AfterUpsert(ui, Len(points))
                 /\ UNCHANGED response
    /\ UNCHANGED <<run, missing_env, recent, existing_ids, new_videos, skipped_existing, fi,
                   transcript_rows, failed_videos, chunk_rows, uploaded_videos, ei, points,
                   embed_log, chunkVars, artVars, auxVars>>

\* sync_transcripts returns its result (lines 389-398); the handler answers 200.
Return ==
    /\ pc = "return"
    /\ response' = RunResult(uploaded_videos, skipped_existing, failed_videos)
    /\ pc' = "done"
    /\ UNCHANGED <<store, run, calls, missing_env, syncLocals, chunkVars, artVars, auxVars>>

Next == SyncStart \/ FetchBatch \/ BuildChunks \/ EmbedBatch \/ UpsertBatch \/ Return
----------------------------------------------------------------------------
(* The article scrapers, fetch stage and upload loop:                      *)
(*   "crawl_medium"     scripts/python/crawl_medium.py, main               *)
(*   "api_scrape"       api/scrape-medium-articles/index.py,               *)
(*                      process_articles_async                             *)
(*   "app_scrape"       app/python/api/scrape-medium-articles/index.py,    *)
(*                      process_articles                                   *)
(*   "medium_articles"  api/medium-articles.py, process_articles           *)
(* A url is its position in the discovered list.  A scraped article is its *)
(* url and what the upload loop will find: "ok", "short" (content under    *)
(* 200 characters) or "old" (published before the date threshold).         *)

MaxUrls == 4

\* batch_size = 3, in the three entry points that gather
batch_size == 3

Entries == {"crawl_medium", "api_scrape", "app_scrape", "medium_articles"}

\* What fetching one article does: an article ("ok", "short", "old"), no
\* article (the crawl reports failure), or an exception in the request.
ArticleOutcomes == {"ok", "short", "old", "none", "raise"}

\* What the scrape function of an entry point hands back for an outcome:
\* crawl_url (api_scrape, lines 92-110) and fetch_article_content
\* (medium_articles, lines 118-123) catch the exception and return None;
\* the scrape_article_content of the other two lets it out.
ScrapeResult(e, outcome) ==
    IF outcome = "raise" /\ e \in {"api_scrape", "medium_articles"} THEN "none"
    ELSE outcome

\* asyncio.gather(*tasks) without return_exceptions (crawl_medium, line 292)
\* raises the first exception of the batch into main; with
\* return_exceptions=True the exception is one of the results.
GatherRaises(e, res) ==
    e = "crawl_medium" /\ \E k \in 1..Len(res) : res[k] = "raise"

\* The results of a batch that count as failed: an exception (api_scrape
\* line 195, app_scrape line 222), and None in api_scrape alone (line 200).
BatchFailures(e, res) ==
    Cardinality({k \in 1..Len(res) :
        \/ res[k] = "raise" /\ e \in {"api_scrape", "app_scrape"}
        \/ res[k] = "none" /\ e = "api_scrape"})

\* The results of a batch that are articles, in order.
BatchArticles(batch, res) ==
    LET got == SelectSeq([k \in 1..Len(res) |-> k],
                         LAMBDA k : res[k] \in {"ok", "short", "old"})
    IN  [j \in 1..Len(got) |-> [url |-> batch[got[j]], kind |-> res[got[j]]]]

NoResults == [success |-> 0, failed |-> 0, articles |-> <<>>]

ArticlesIdle ==
    /\ entry = "none"
    /\ urls = <<>>
    /\ ai = 0
    /\ fetched = 0
    /\ scraped_articles = <<>>
    /\ results = NoResults
    /\ ak = 0
    /\ apc = "idle"
    /\ test_mode = FALSE
    /\ aembedded = {}
    /\ apoints = {}
    /\ caught = 0

\* The entry point is called, with or without test_mode, and the profile
\* page gives its article urls; with none it returns the empty results at
\* once.
ArtStart ==
    /\ apc = "idle"
    /\ \E e \in Entries, n \in 0..MaxUrls, test \in BOOLEAN :
          /\ entry' = e
          /\ test_mode' = test
          /\ urls' = [k \in 1..n |-> k]
          /\ apc' = IF n = 0 THEN "done"
                    ELSE IF e = "medium_articles" THEN "loop" ELSE "fetch"
    /\ UNCHANGED <<ai, fetched, scraped_articles, results, ak, aembedded, apoints, caught>>
    /\ UNCHANGED <<chunkVars, pipeVars, auxVars>>

\* One batch of the gathering entry points (crawl_medium 289-293, api_scrape
\* 188-201, app_scrape 217-226).
ArtFetchBatch ==
    /\ apc = "fetch"
    /\ ai < Len(urls)
    /\ LET batch == SubSeq(urls, ai + 1, Min(ai + batch_size, Len(urls)))
       IN  \E outcome \in [1..Len(batch) -> ArticleOutcomes] :
              LET res == [k \in 1..Len(batch) |-> ScrapeResult(entry, outcome[k])]
              IN  \/ /\ GatherRaises(entry, res)
                     /\ apc' = "raised"
                     /\ UNCHANGED <<ai, fetched, scraped_articles, results>>
                  \/ /\ ~GatherRaises(entry, res)
                     /\ scraped_articles' = scraped_articles \o BatchArticles(batch, res)
                     /\ results' = [results EXCEPT !.failed = @ + BatchFailures(entry, res)]
                     /\ fetched' = fetched + Len(batch)
                     /\ ai' = ai + batch_size
                     /\ apc' = IF ai + batch_size >= Len(urls) THEN "upload" ELSE "fetch"
    /\ ak' = 1
    /\ UNCHANGED <<entry, urls, test_mode, aembedded, apoints, caught>>
    /\ UNCHANGED <<chunkVars, pipeVars, auxVars>>

\* The most chunks an article is cut into.
MaxArticleChunks == 2

\* How the for loop over the chunks of an article ends: all chunks done, or
\* an exception out of generate_embedding or out of qdrant.upsert.
UploadEndings == {"none", "embed", "upsert"}

\* Whether the loop body gets as far as the try block: the article is
\* neither too old nor too short and the run is not in test mode.
Uploads(article, test) == article.kind = "ok" /\ ~test

\* The chunk indexes embedded by the for loop over n chunks that makes
\* `before` whole iterations before it ends.
EmbeddedChunks(n, before, ending) ==
    IF ending = "none" THEN 0..(n - 1)
    ELSE IF ending = "embed" THEN 0..(before - 1)
    ELSE 0..before

\* The chunk indexes upserted by it.
UpsertedChunks(n, before, ending) ==
    IF ending = "none" THEN 0..(n - 1) ELSE 0..(before - 1)

\* An upload that counts the article before the loop over its chunks.
UploadedCountedFirst(res, article, test, n, ending) ==
    IF article.kind = "old" THEN res
    ELSE IF article.kind = "short" THEN [res EXCEPT !.failed = @ + 1]
    ELSE IF test
         THEN [res EXCEPT !.success = @ + 1,
                          !.articles = Append(@, [url |-> article.url,
                                                  field |-> "content_length", n |-> 0])]
    ELSE IF ending # "none"
         THEN [res EXCEPT !.success = @ + 1, !.failed = @ + 1,
                          !.articles = Append(@, [url |-> article.url,
                                                  field |-> "chunks", n |-> n])]
    ELSE [res EXCEPT !.success = @ + 1,
                     !.articles = Append(@, [url |-> article.url,
                                             field |-> "chunks", n |-> n])]

\* What the upload loop does with one article: skip an old one, count a
\* short one as failed, in test mode record it with its content length,
\* otherwise upload its n chunks inside try/except: counted and listed with
\* its chunk count after the last chunk, counted as failed on an exception.
Uploaded(res, article, test, n, ending) ==
    IF article.kind = "old" THEN res
    ELSE IF article.kind = "short" THEN [res EXCEPT !.failed = @ + 1]
    ELSE IF test
         THEN [res EXCEPT !.success = @ + 1,
                          !.articles = Append(@, [url |-> article.url,
                                                  field |-> "content_length", n |-> 0])]
    ELSE IF ending # "none" THEN [res EXCEPT !.failed = @ + 1]
    ELSE [res EXCEPT !.success = @ + 1,
                     !.articles = Append(@, [url |-> article.url,
                                             field |-> "chunks", n |-> n])]

\* The calls the upload of one article makes and the exception it catches.
UploadEffects(article, n, before, ending) ==
    /\ aembedded' = aembedded \cup
          (IF Uploads(article, test_mode)
           THEN {<<article.url, i>> : i \in EmbeddedChunks(n, before, ending)} ELSE {})
    /\ apoints' = apoints \cup
          (IF Uploads(article, test_mode)
           THEN {<<article.url, i>> : i \in UpsertedChunks(n, before, ending)} ELSE {})
    /\ caught' = IF Uploads(article, test_mode) /\ ending # "none"
                 THEN caught + 1 ELSE caught

\* One iteration of the upload loop over scraped_articles.
ArtUpload ==
    /\ apc = "upload"
    /\ ak <= Len(scraped_articles)
    /\ \E n \in 1..MaxArticleChunks, ending \in UploadEndings :
          \E before \in 0..(n - 1) :
              /\ results' = Uploaded(results, scraped_articles[ak], test_mode, n, ending)
              /\ UploadEffects(scraped_articles[ak], n, before, ending)
    /\ ak' = ak + 1
    /\ UNCHANGED <<entry, urls, ai, fetched, scraped_articles, apc, test_mode>>
    /\ UNCHANGED <<chunkVars, pipeVars, auxVars>>

\* The entry point returns its results.
ArtReturn ==
    /\ \/ apc = "upload" /\ ak > Len(scraped_articles)
       \/ apc = "loop" /\ ai >= Len(urls)
    /\ apc' = "done"
    /\ UNCHANGED <<entry, urls, ai, fetched, scraped_articles, results, ak>>
    /\ UNCHANGED <<test_mode, aembedded, apoints, caught>>
    /\ UNCHANGED <<chunkVars, pipeVars, auxVars>>

\* One iteration of medium_articles' loop (lines 177-249): fetch the url,
\* then filter and upload it.
ArtSequential ==
    /\ apc = "loop"
    /\ ai < Len(urls)
    /\ \E outcome \in ArticleOutcomes, n \in 1..MaxArticleChunks, ending \in UploadEndings :
          \E before \in 0..(n - 1) :
              LET res == ScrapeResult(entry, outcome)
                  article == [url |-> urls[ai + 1], kind |-> res]
              IN  IF res = "none"
                  THEN /\ results' = [results EXCEPT !.failed = @ + 1]
                       /\ UNCHANGED <<scraped_articles, aembedded, apoints, caught>>
                  ELSE /\ results' = Uploaded(results, article, test_mode, n, ending)
                       /\ UploadEffects(article, n, before, ending)
                       /\ scraped_articles' = Append(scraped_articles, article)
    /\ fetched' = fetched + 1
    /\ ai' = ai + 1
    /\ UNCHANGED <<entry, urls, ak, apc, test_mode>>
    /\ UNCHANGED <<chunkVars, pipeVars, auxVars>>

NextArticles == ArtStart \/ ArtFetchBatch \/ ArtUpload \/ ArtReturn \/ ArtSequential

(* The specifications *)

----------------------------------------------------------------------------
(* fetch_transcript_text, one method call per step                         *)

FetchIdle ==
    /\ fvideo = 0
    /\ fprimary = [kind |-> "raise", text |-> 0]
    /\ ffallback = [kind |-> "raise", text |-> 0]
    /\ fattempts = <<>>
    /\ fresult = [text |-> 0, error |-> ""]
    /\ fpc = "idle"

\* A call fetch_transcript_text(video_id), and what the two methods of the
\* library would answer for that video.
InitFetchCall ==
    /\ fvideo \in Videos
    /\ fprimary \in MethodOutcomes
    /\ ffallback \in MethodOutcomes
    /\ fattempts = <<>>
    /\ fresult = [text |-> 0, error |-> ""]
    /\ fpc = "primary"

\* What a try block returns when its method did not raise (lines 209-214,
\* 221-226): the text, or None and "Transcript too short" under 200 characters.
MethodReturn(outcome) ==
    IF outcome.kind = "ok" THEN [text |-> outcome.text, error |-> ""]
    ELSE [text |-> 0, error |-> "Transcript too short"]

\* lines 207-216: YouTubeTranscriptApi.get_transcript; an exception is
\* logged and leads on to the second try block.
FetchPrimary ==
    /\ fpc = "primary"
    /\ fattempts' = Append(fattempts, "get_transcript")
    /\ IF fprimary.kind = "raise"
       THEN fpc' = "fallback" /\ UNCHANGED fresult
       ELSE fpc' = "done" /\ fresult' = MethodReturn(fprimary)
    /\ UNCHANGED <<fvideo, fprimary, ffallback>>
    /\ UNCHANGED <<chunkVars, pipeVars, artVars, scanVars, ovVars, poolVars, httpVars>>

\* lines 218-230: YouTubeTranscriptApi().fetch; an exception becomes the
\* error message returned.
FetchFallback ==
    /\ fpc = "fallback"
    /\ fattempts' = Append(fattempts, "fetch")
    /\ fresult' = IF ffallback.kind = "raise"
                  THEN [text |-> 0, error |-> "TranscriptsDisabled: no transcript"]
                  ELSE MethodReturn(ffallback)
    /\ fpc' = "done"
    /\ UNCHANGED <<fvideo, fprimary, ffallback>>
    /\ UNCHANGED <<chunkVars, pipeVars, artVars, scanVars, ovVars, poolVars, httpVars>>

NextFetch == FetchPrimary \/ FetchFallback

----------------------------------------------------------------------------
(* get_existing_transcript_video_ids, one qdrant.scroll per step.  The     *)
(* collection is the sequence of its points' payloads in scroll order; a   *)
(* cursor is the position of the next point, 0 standing for None.  A       *)
(* payload has contentType, youtubeVideoId (0: absent or empty) and        *)
(* sourceUrl: absent, or https://www.youtube.com/watch?v=<v>.              *)

\* Bounds of the collection scrolled; the page size is scaled down from the
\* limit=100 of line 165.
MaxPoints == 3
ScrollLimit == 2

ScanVideoIds == {1, 2}

SourceUrls == {[host |-> "none", v |-> 0]} \cup {[host |-> "youtube", v |-> i] : i \in ScanVideoIds}

Payloads ==
    [contentType : {"transcript", "article"},
     youtubeVideoId : {0} \cup ScanVideoIds,
     sourceUrl : SourceUrls]

Collections == UNION {[1..n -> Payloads] : n \in 0..MaxPoints}

\* qdrant.scroll(limit=..., offset=cursor): the page and the next cursor.
Scroll(coll, cursor) ==
    LET first == IF cursor = 0 THEN 1 ELSE cursor
        last == Min(first + ScrollLimit - 1, Len(coll))
    IN  [result |-> SubSeq(coll, first, last),
         next |-> IF last < Len(coll) THEN last + 1 ELSE 0]

\* lines 175-177: video_id = payload.get("youtubeVideoId"); if video_id: add
FieldId(payload) ==
    IF payload.youtubeVideoId # 0 THEN {payload.youtubeVideoId} ELSE {}

\* lines 178-182: the v parameter of a watch url, when sourceUrl is one
UrlId(payload) ==
    IF payload.sourceUrl.host = "youtube" THEN {payload.sourceUrl.v} ELSE {}

\* An extraction that does not look at the content type.
ExtractAnyType(payload) == FieldId(payload) \cup UrlId(payload)

\* lines 172-182: what one point adds to seen
Extract(payload) ==
    IF payload.contentType # "transcript" THEN {}
    ELSE FieldId(payload) \cup UrlId(payload)

ScanIdle ==
    /\ collection = <<>>
    /\ offset = 0
    /\ seen = {}
    /\ requested = <<>>
    /\ total_processed = 0
    /\ spc = "idle"

\* lines 158-161: the call, on some collection
InitScanCall ==
    /\ collection \in Collections
    /\ offset = 0
    /\ seen = {}
    /\ requested = <<>>
    /\ total_processed = 0
    /\ spc = "scroll"

\* lines 163-184: one turn of the while loop; a scroll that raises leaves
\* the function.
ScanPage ==
    /\ spc = "scroll"
    /\ requested' = Append(requested, offset)
    /\ \/ /\ spc' = "raised"
          /\ UNCHANGED <<offset, seen, total_processed>>
       \/ LET page == Scroll(collection, offset) IN
          /\ total_processed' = total_processed + Len(page.result)
          /\ seen' = seen \cup UNION {Extract(page.result[k]) : k \in 1..Len(page.result)}
          /\ offset' = page.next
          /\ spc' = IF page.next = 0 THEN "done" ELSE "scroll"
    /\ UNCHANGED collection
    /\ UNCHANGED <<chunkVars, pipeVars, artVars, fetchVars, ovVars, poolVars, httpVars>>

NextScan == ScanPage

----------------------------------------------------------------------------
(* fetch_transcripts_batched with its workers: for every batch a           *)
(* ThreadPoolExecutor whose map submits one fetch_transcript_text per      *)
(* video; the worker threads take the submitted calls in order; leaving    *)
(* the with block waits for all of them.  A video is named by its position *)
(* in the list; a slot is the future of one call.                          *)

\* Pool size, scaled down with the batch size (the source sets 5 at line 30).
TRANSCRIPT_WORKERS == 2

Pending == [text |-> 0, error |-> "pending"]

\* What a call of fetch_transcript_text can return.
FetchResults ==
    {FetchTranscriptText(primary, fallback) : primary, fallback \in MethodOutcomes}

\* The positions of the batch that starts behind position i.
BatchPositions(videos, i) == (i + 1)..Min(i + TRANSCRIPT_BATCH_SIZE, Len(videos))

PoolIdle ==
    /\ pvideos = <<>>
    /\ pbi = 0
    /\ pqueue = <<>>
    /\ prunning = {}
    /\ pslots = <<>>
    /\ pwrites = <<>>
    /\ pcompleted = <<>>
    /\ prows = <<>>
    /\ pfailed = <<>>
    /\ ppc = "idle"

\* lines 233-236: the call, on a list of new videos
InitPoolCall ==
    /\ pvideos \in RecentLists \ {<<>>}
    /\ pbi = 0
    /\ pqueue = <<>>
    /\ prunning = {}
    /\ pslots = [k \in 1..Len(pvideos) |-> Pending]
    /\ pwrites = [k \in 1..Len(pvideos) |-> 0]
    /\ pcompleted = <<>>
    /\ prows = <<>>
    /\ pfailed = <<>>
    /\ ppc = "submit"

\* A with block that does not wait for the calls still running.
BatchOverNoWait(queue, running) == queue = <<>>

\* list(executor.map(...)) has every result and the with block is left
\* (shutdown waits for the workers).
BatchOver(queue, running) == queue = <<>> /\ running = {}

\* Results taken as the calls complete.
ResultsAsCompleted(slots, positions, completed) ==
    LET order == SelectSeq(completed, LAMBDA i : i \in positions)
    IN  [k \in 1..Len(order) |-> slots[order[k]]]

\* list(executor.map(...)): the results in the order of the batch.
MapResults(slots, positions, completed) ==
    LET order == SelectSeq([k \in 1..Len(slots) |-> k], LAMBDA i : i \in positions)
    IN  [k \in 1..Len(order) |-> slots[order[k]]]

\* lines 238-242: the next batch is sliced and its calls are submitted.
PoolSubmit ==
    /\ ppc = "submit"
    /\ pqueue' = SelectSeq([k \in 1..Len(pvideos) |-> k],
                           LAMBDA i : i \in BatchPositions(pvideos, pbi))
    /\ ppc' = "wait"
    /\ UNCHANGED <<pvideos, pbi, prunning, pslots, pwrites, pcompleted, prows, pfailed>>
    /\ UNCHANGED <<chunkVars, pipeVars, artVars, fetchVars, scanVars, ovVars, httpVars>>

\* A worker thread, of at most max_workers, takes the next submitted call.
WorkerStart ==
    /\ ppc = "wait"
    /\ pqueue # <<>>
    /\ Cardinality(prunning) < TRANSCRIPT_WORKERS
    /\ prunning' = prunning \cup {Head(pqueue)}
    /\ pqueue' = Tail(pqueue)
    /\ UNCHANGED <<pvideos, pbi, pslots, pwrites, pcompleted, prows, pfailed, ppc>>
    /\ UNCHANGED <<chunkVars, pipeVars, artVars, fetchVars, scanVars, ovVars, httpVars>>

\* A running call returns: its result goes to its own future.
WorkerFinish ==
    /\ \E i \in prunning, result \in FetchResults :
          /\ pslots' = [pslots EXCEPT ![i] = result]
          /\ pwrites' = [pwrites EXCEPT ![i] = @ + 1]
          /\ prunning' = prunning \ {i}
          /\ pcompleted' = Append(pcompleted, i)
    /\ UNCHANGED <<pvideos, pbi, pqueue, prows, pfailed, ppc>>
    /\ UNCHANGED <<chunkVars, pipeVars, artVars, fetchVars, scanVars, ovVars, httpVars>>

\* lines 242-263: the results are there, the pool is shut down, the zip loop
\* sorts the batch into rows and failed entries; then the next batch.
BatchCollect ==
    /\ ppc = "wait"
    /\ BatchOver(pqueue, prunning)
    /\ LET positions == BatchPositions(pvideos, pbi)
           batch == SubSeq(pvideos, pbi + 1, Min(pbi + TRANSCRIPT_BATCH_SIZE, Len(pvideos)))
           rs == MapResults(pslots, positions, pcompleted)
       IN  /\ prows' = prows \o BatchRows(batch, rs)
           /\ pfailed' = pfailed \o BatchFailed(batch, rs)
    /\ pbi' = pbi + TRANSCRIPT_BATCH_SIZE
    /\ ppc' = IF pbi + TRANSCRIPT_BATCH_SIZE >= Len(pvideos) THEN "done" ELSE "submit"
    /\ UNCHANGED <<pvideos, pqueue, prunning, pslots, pwrites, pcompleted>>
    /\ UNCHANGED <<chunkVars, pipeVars, artVars, fetchVars, scanVars, ovVars, httpVars>>

NextPool == PoolSubmit \/ WorkerStart \/ WorkerFinish \/ BatchCollect

----------------------------------------------------------------------------
(* The HTTP entry points and their authorization test:                     *)
(*   "youtube_transcripts"  api/youtube-transcripts/index.py (Flask)       *)
(*   "api_scrape"           api/scrape-medium-articles/index.py (Flask)    *)
(*   "app_scrape"           app/python/api/scrape-medium-articles/index.py *)
(*                          (FastAPI)                                      *)
(*   "medium_articles"      api/medium-articles.py, do_GET and do_POST     *)
(* A header value is its text before the token and its token; the          *)
(* environment variable is set or not, and can be set to the empty string. *)

HttpEntries == {"youtube_transcripts", "api_scrape", "app_scrape", "medium_articles"}

SecretValues == {"", "s1", "s2"}

\* os.getenv("CRON_SECRET")
Environments ==
    {[set |-> FALSE, value |-> ""]} \cup {[set |-> TRUE, value |-> v] : v \in SecretValues}

\* The Authorization header of a request, absent or with some value.
Headers ==
    {[present |-> FALSE, prefix |-> "", token |-> ""]}
        \cup {[present |-> TRUE, prefix |-> p, token |-> t] :
                 p \in {"Bearer ", "bearer ", ""}, t \in SecretValues}

\* f"Bearer {cron_secret}"
BearerOf(secret) == [present |-> TRUE, prefix |-> "Bearer ", token |-> secret]

\* if not cron_secret: None and the empty string
NoSecret(env) == ~env.set \/ env.value = ""

\* if not authorization: None and the empty string
NoHeader(header) == ~header.present \/ (header.prefix = "" /\ header.token = "")

\* app_scrape's verify_auth prints cron_secret (line 308) before the
\* assignment that makes it a local (line 309): the read raises
\* UnboundLocalError in every call.
ReadsBeforeAssignment(e) == e = "app_scrape"

\* verify_auth / handler._check_auth: "allow", "deny" or "raise".
VerifyAuth(e, env, header) ==
    IF ReadsBeforeAssignment(e) THEN "raise"
    ELSE IF NoSecret(env) THEN "allow"
    ELSE IF NoHeader(header) THEN "deny"
    ELSE IF header = BearerOf(env.value) THEN "allow"
    ELSE "deny"

HttpIdle ==
    /\ hentry = "none"
    /\ hsecret = [set |-> FALSE, value |-> ""]
    /\ hheader = [present |-> FALSE, prefix |-> "", token |-> ""]
    /\ hstatus = 0
    /\ hran = FALSE
    /\ hpc = "idle"

\* A request reaches an entry point.
HttpRequest ==
    /\ hpc = "idle"
    /\ hentry' \in HttpEntries
    /\ hsecret' \in Environments
    /\ hheader' \in Headers
    /\ hpc' = "auth"
    /\ UNCHANGED <<hstatus, hran>>
    /\ UNCHANGED <<chunkVars, pipeVars, artVars, fetchVars, scanVars, ovVars, poolVars>>

\* The handler tests the header: 401 on a refusal; an exception out of the
\* test leaves the handler and the framework answers 500.
HttpVerify ==
    /\ hpc = "auth"
    /\ LET verdict == VerifyAuth(hentry, hsecret, hheader)
       IN  /\ hstatus' = IF verdict = "deny" THEN 401
                         ELSE IF verdict = "raise" THEN 500 ELSE 0
           /\ hpc' = IF verdict = "allow" THEN "run" ELSE "responded"
    /\ UNCHANGED <<hentry, hsecret, hheader, hran>>
    /\ UNCHANGED <<chunkVars, pipeVars, artVars, fetchVars, scanVars, ovVars, poolVars>>

\* The handler calls the pipeline inside try/except and answers 200 with
\* its results or 500 with its exception.
HttpRun ==
    /\ hpc = "run"
    /\ hran' = TRUE
    /\ \E raised \in BOOLEAN : hstatus' = IF raised THEN 500 ELSE 200
    /\ hpc' = "responded"
    /\ UNCHANGED <<hentry, hsecret, hheader>>
    /\ UNCHANGED <<chunkVars, pipeVars, artVars, fetchVars, scanVars, ovVars, poolVars>>

NextHttp == HttpRequest \/ HttpVerify \/ HttpRun

----------------------------------------------------------------------------
(* Two requests served at the same time: two runs of sync_transcripts on   *)
(* one collection and one discovered list, interleaved at their calls to   *)
(* the collection.  A run's steps between its scan and its first upsert    *)
(* (fetch, chunk, embed) touch no shared state and ride with the scan.     *)

Runs == {1, 2}

Other(r) == 3 - r

OverlapIdle ==
    /\ ostore = {}
    /\ orecent = <<>>
    /\ opc = [r \in Runs |-> "idle"]
    /\ onew = [r \in Runs |-> <<>>]
    /\ opoints = [r \in Runs |-> <<>>]
    /\ oui = [r \in Runs |-> 0]
    /\ overlapped = FALSE

InitTwoRuns ==
    /\ ostore = {}
    /\ orecent \in RecentLists \ {<<>>}
    /\ opc = [r \in Runs |-> "scan"]
    /\ onew = [r \in Runs |-> <<>>]
    /\ opoints = [r \in Runs |-> <<>>]
    /\ oui = [r \in Runs |-> 0]
    /\ overlapped = FALSE

\* The points run r builds from its transcript rows (lines 273-301, 334-341).
PointsOf(rows, r) ==
    LET crs == BuildChunkRows(rows, r, 1)
    IN  [k \in 1..Len(crs) |-> Point(PointId(r, k), crs[k], k)]

\* Run r up to its first upsert: get_new_videos on the collection as it is
\* now (lines 198-199), then the fetches, the chunks and the embeddings of
\* its new videos (lines 376-385, 321-341).  The run ends here when it has
\* nothing to write or an embedding call raises.
OvScan(r) ==
    /\ opc[r] = "scan"
    /\ LET new == NewVideos(orecent, ExistingIds(ostore)) IN
       /\ onew' = [onew EXCEPT ![r] = new]
       /\ \E texts \in [1..Len(new) -> {0} \cup ChunkCounts], embedded \in BOOLEAN :
             LET rs == [k \in 1..Len(new) |-> [text |-> texts[k], error |-> ""]]
                 pts == IF embedded THEN PointsOf(BatchRows(new, rs), r) ELSE <<>>
             IN  /\ opoints' = [opoints EXCEPT ![r] = pts]
                 /\ opc' = [opc EXCEPT ![r] = IF pts = <<>> THEN "done" ELSE "upsert"]
    /\ overlapped' = (overlapped \/ opc[Other(r)] = "upsert")
    /\ UNCHANGED <<ostore, orecent, oui>>
    /\ UNCHANGED <<chunkVars, pipeVars, artVars, fetchVars, scanVars, poolVars, httpVars>>

\* One qdrant.upsert of run r (lines 344-351).
OvUpsert(r) ==
    /\ opc[r] = "upsert"
    /\ LET batch == UpsertSlice(opoints[r], oui[r])
       IN  \/ /\ opc' = [opc EXCEPT ![r] = "done"]
              /\ UNCHANGED <<ostore, oui>>
           \/ /\ ostore' = ostore \cup {batch[k].payload @@ [id |-> batch[k].id] : k \in 1..Len(batch)}
              /\ oui' = [oui EXCEPT ![r] = @ + QDRANT_UPSERT_BATCH_SIZE]
              /\ opc' = [opc EXCEPT ![r] =
                            IF oui[r] + QDRANT_UPSERT_BATCH_SIZE >= Len(opoints[r])
                            THEN "done" ELSE "upsert"]
    /\ UNCHANGED <<orecent, onew, opoints, overlapped>>
    /\ UNCHANGED <<chunkVars, pipeVars, artVars, fetchVars, scanVars, poolVars, httpVars>>

NextOverlap == \E r \in Runs : OvScan(r) \/ OvUpsert(r)

(* The specifications *)

InitChunkSpec == InitChunk /\ SyncIdle /\ ArticlesIdle /\ FetchIdle /\ ScanIdle /\ OverlapIdle /\ PoolIdle /\ HttpIdle

SpecChunk == InitChunkSpec /\ [][NextChunk]_vars

Init == SyncIdle /\ ChunkIdle /\ ArticlesIdle /\ FetchIdle /\ ScanIdle /\ OverlapIdle /\ PoolIdle /\ HttpIdle

Spec == Init /\ [][Next]_vars

InitArticles == ArticlesIdle /\ ChunkIdle /\ SyncIdle /\ FetchIdle /\ ScanIdle /\ OverlapIdle /\ PoolIdle /\ HttpIdle

SpecArticles == InitArticles /\ [][NextArticles]_vars

\* The runs under the assumption that every external call returns or
\* raises: a run that has started takes its next step.  Requests need not
\* keep arriving, so SyncStart is left without fairness.
SpecLive ==
    /\ Init
    /\ [][Next]_vars
    /\ WF_vars(FetchBatch)
    /\ WF_vars(BuildChunks)
    /\ WF_vars(EmbedBatch)
    /\ WF_vars(UpsertBatch)
    /\ WF_vars(Return)

InitFetch == InitFetchCall /\ ChunkIdle /\ SyncIdle /\ ArticlesIdle /\ ScanIdle /\ OverlapIdle /\ PoolIdle /\ HttpIdle

SpecFetch == InitFetch /\ [][NextFetch]_vars

InitScan == InitScanCall /\ ChunkIdle /\ SyncIdle /\ ArticlesIdle /\ FetchIdle /\ OverlapIdle /\ PoolIdle /\ HttpIdle

SpecScan == InitScan /\ [][NextScan]_vars

InitOverlap == InitTwoRuns /\ ChunkIdle /\ SyncIdle /\ ArticlesIdle /\ FetchIdle /\ ScanIdle /\ PoolIdle /\ HttpIdle

SpecOverlap == InitOverlap /\ [][NextOverlap]_vars

InitPool ==
    InitPoolCall /\ ChunkIdle /\ SyncIdle /\ ArticlesIdle /\ FetchIdle /\ ScanIdle /\ OverlapIdle
        /\ HttpIdle

SpecPool == InitPool /\ [][NextPool]_vars

InitHttp ==
    HttpIdle /\ ChunkIdle /\ SyncIdle /\ ArticlesIdle /\ FetchIdle /\ ScanIdle /\ OverlapIdle
        /\ PoolIdle

SpecHttp == InitHttp /\ [][NextHttp]_vars

----------------------------------------------------------------------------
(* Properties of the transcript sync, checked under Spec *)

Ids(entries) == {entries[k].id : k \in 1..Len(entries)}

Range(seq) == {seq[k] : k \in 1..Len(seq)}

\* The entries of a response's per-item list with the given status.
Listed(resp, status) ==
    {resp.videos[k].id : k \in {i \in 1..Len(resp.videos) : resp.videos[i].status = status}}

\* A step that starts a run right after a completed one, with the same
\* discovered list, and gets through discovery and the dedup scan.
RerunsSameList ==
    /\ pc = "done"
    /\ run >= 1
    /\ run' = run + 1
    /\ response.status = 200
    /\ response'.status \in {0, 200}
    /\ recent' = recent

\* The second run ends at once: nothing fetched, embedded or written, all skipped.
SecondRunIdle ==
    /\ pc' = "done"
    /\ response' = RunResult(<<>>, Len(recent'), <<>>)
    /\ calls'.fetch = 0 /\ calls'.embed = 0 /\ calls'.upsert = 0
    /\ store' = store
    /\ Listed(response, "uploaded") \cap Range(new_videos') = {}

\* C1 as stated (idempotent ingestion): a run made right after a completed
\* run, on the same discovered list, issues no fetch, embedding or upsert
\* call, adds no record and reports every item as skipped.
IdempotentRerun == [][RerunsSameList => SecondRunIdle]_vars

\* C1 as amended: the same, when the first run reported no failed item.
IdempotentRerunNoFailure ==
    [][(RerunsSameList /\ response.failed = 0) => SecondRunIdle]_vars

\* Two runs on one list of two videos or more, the second skipping them all
\* because the first wrote every one of them.
IdempotentRerunWitness ==
    /\ pc = "done"
    /\ run = 2
    /\ Len(recent) >= 2
    /\ response = RunResult(<<>>, Len(recent), <<>>)
    /\ ExistingIds(store) = Range(recent)
    /\ \A p \in store : p.baseId[1] = 1

\* The base ids each video has in the collection.
VideoBaseIds == {<<p.youtubeVideoId, p.baseId>> : p \in store}

\* C2 (never double-ingest): whatever runs completed or aborted, no video id
\* has points under two different base ids.
NeverDoubleIngest ==
    \A a, b \in VideoBaseIds : a[1] = b[1] => a[2] = b[2]

\* The points one base id has in the collection, as chunk indexes.
StoredIndexes(base) == {p.chunkIndex : p \in {q \in store : q.baseId = base}}

\* Points of different runs in the collection, one video left with part of its
\* chunks by an aborted run, and a later run that met that video again.
NeverDoubleIngestWitness ==
    /\ pc = "done"
    /\ run = 3
    /\ \E p, q \in store :
          /\ p.baseId[1] = 1
          /\ q.baseId[1] = 3
          /\ StoredIndexes(p.baseId) # 0..(p.totalChunks - 1)
          /\ p.youtubeVideoId \in Range(recent)

\* The run got past fetch_transcripts_batched.
FetchStageOver ==
    \/ pc \in {"build", "embed", "upsert", "return"}
    \/ pc = "done" /\ response.status = 200 /\ new_videos # <<>>
    \/ pc = "done" /\ response.status = 500 /\ response.stage \in {"embedding", "persistence"}

\* Document j of the run is in the collection with all its chunks.
Persisted(j) ==
    /\ StoredIndexes(BaseId(run, j)) = 0..(transcript_rows[j].text - 1)
    /\ \A p \in store : p.baseId = BaseId(run, j) => p.youtubeVideoId = transcript_rows[j].id

\* C3 (fetch isolation): once the fetch stage is over every new video has
\* been fetched, whatever happened to the others, and is either a transcript
\* row or a failed entry with a non-empty reason; when the run completes,
\* every fetched video is persisted and listed as uploaded and every failed
\* one is listed as failed.
FetchIsolation ==
    /\ FetchStageOver =>
          /\ calls.fetch = Len(new_videos)
          /\ Len(transcript_rows) + Len(failed_videos) = Len(new_videos)
          /\ Ids(transcript_rows) \cup Ids(failed_videos) = Range(new_videos)
          /\ \A k \in 1..Len(failed_videos) :
                failed_videos[k].status = "failed" /\ failed_videos[k].error # ""
    /\ (pc = "done" /\ response.status = 200 /\ new_videos # <<>>) =>
          /\ \A j \in 1..Len(transcript_rows) : Persisted(j)
          /\ Listed(response, "uploaded") = Ids(transcript_rows)
          /\ Listed(response, "failed") = Ids(failed_videos)
          /\ \A k \in 1..Len(response.videos) :
                response.videos[k].status = "failed" => response.videos[k].error # ""

\* Three new videos: the first of the first batch fails, its batch mate and
\* the video of the next batch are fetched and persisted.
FetchIsolationWitness ==
    /\ pc = "done"
    /\ response.status = 200
    /\ Len(new_videos) = 3
    /\ Ids(failed_videos) = {new_videos[1]}
    /\ Ids(transcript_rows) = {new_videos[2], new_videos[3]}
    /\ Persisted(1) /\ Persisted(2)

\* C5 (the run always returns a structured result): every run that starts
\* with valid configuration and gets its video list answers with a result of
\* uploaded, skipped and failed counts and a per-item list whose failed
\* entries carry a reason, also when an embedding or upsert call raised.
RunAlwaysReturnsResult ==
    (/\ pc = "done"
     /\ run >= 1
     /\ ~(response.status = 500 /\ response.stage \in {"config", "discovery", "scan"})) =>
        /\ response.status = 200
        /\ DOMAIN response = {"status", "uploaded", "skipped", "failed", "videos"}
        /\ \A k \in 1..Len(response.videos) :
              response.videos[k].status = "failed" => response.videos[k].error # ""

\* The videos owning a chunk of the embedding batch that starts at ei.
BatchOwners ==
    {chunk_rows[k].youtubeVideoId :
        k \in (ei + 1)..Min(ei + EMBEDDING_BATCH_SIZE, Len(chunk_rows))}

\* C6 (embedding failure): when the embedding call of a batch raises, the
\* result lists every video owning a chunk of that batch as failed, and no
\* persistence call of the run carries a record of that batch.
EmbeddingFailureMarksFailed ==
    (pc = "done" /\ response.status = 500 /\ response.stage = "embedding") =>
        /\ "videos" \in DOMAIN response
        /\ BatchOwners \subseteq Listed(response, "failed")
        /\ calls.upsert = 0

\* C7 (chunk-group completeness): at the end of a run, completed or aborted,
\* every base id in the collection has all its chunks, 0..totalChunks-1.
ChunkGroupComplete ==
    (pc = "done") =>
        \A p \in store : StoredIndexes(p.baseId) = 0..(p.totalChunks - 1)

\* The recent videos already in the dedup set, by position.
Known == {i \in 1..Len(recent) : recent[i] \in existing_ids}

\* The run got its video list and its dedup set.
Deduplicated ==
    \/ pc \in {"fetch", "build", "embed", "upsert", "return"}
    \/ pc = "done" /\ response.status = 200
    \/ pc = "done" /\ response.status = 500 /\ response.stage \in {"embedding", "persistence"}

\* C8 (dedup filtering): skipped counts the recent videos whose id is in the
\* dedup set; none of them is fetched, chunked, embedded or persisted by the
\* run; every other recent video goes to the fetcher.
DedupFiltering ==
    Deduplicated =>
        /\ skipped_existing = Cardinality(Known)
        /\ response.status = 200 => response.skipped = Cardinality(Known)
        /\ Range(new_videos) = Range(recent) \ existing_ids
        /\ Len(new_videos) = Len(recent) - Cardinality(Known)
        /\ (Ids(transcript_rows) \cup Ids(failed_videos)) \cap existing_ids = {}
        /\ \A k \in 1..Len(chunk_rows) : chunk_rows[k].youtubeVideoId \notin existing_ids
        /\ \A k \in 1..Len(points) : points[k].payload.youtubeVideoId \notin existing_ids
        /\ \A p \in store : p.baseId[1] = run => p.youtubeVideoId \notin existing_ids
        /\ FetchStageOver =>
              Ids(transcript_rows) \cup Ids(failed_videos) = Range(recent) \ existing_ids

\* Two recent videos, one already in the dedup set: skipped is 1 and the
\* other one is fetched, chunked, embedded and persisted.
DedupFilteringWitness ==
    /\ pc = "done"
    /\ Len(recent) = 2
    /\ Cardinality(Known) = 1
    /\ response.status = 200
    /\ response.skipped = 1
    /\ response.uploaded = 1
    /\ Persisted(1)

\* C12 (RunResult accounting): in every result sync_transcripts returns,
\* uploaded + failed is the number of new videos, uploaded + failed + skipped
\* the number of recent videos, and the per-item list has one entry for every
\* new video, uploaded with its chunk count or failed with an error string.
RunResultAccounting ==
    (pc = "done" /\ response.status = 200) =>
        /\ response.uploaded + response.failed = Len(new_videos)
        /\ response.uploaded + response.failed + response.skipped = Len(recent)
        /\ Len(response.videos) = Len(new_videos)
        /\ Ids(response.videos) = Range(new_videos)
        /\ \A k \in 1..Len(response.videos) :
              \/ /\ response.videos[k].status = "uploaded"
                 /\ response.videos[k].chunks >= 1
              \/ /\ response.videos[k].status = "failed"
                 /\ response.videos[k].error # ""

\* A result with one video of each kind: uploaded, failed and skipped.
RunResultAccountingWitness ==
    /\ pc = "done"
    /\ response.status = 200
    /\ response.uploaded = 1
    /\ response.failed = 1
    /\ response.skipped = 1
    /\ Len(response.videos) = 2

\* The records the run has in the collection.
StoredByRun == {p \in store : p.baseId[1] = run}

\* The records of the first n points of the run.
RecordsOf(n) == {points[k].payload @@ [id |-> points[k].id] : k \in 1..n}

\* C13 (no compensating rollback): when an upsert call fails, the records of
\* the batches before it are in the collection as they were written, no
\* record of the failed batch or of a later one is, and the failed call is
\* the last one of the run.
NoRollback ==
    (pc = "done" /\ response.status = 500 /\ response.stage = "persistence") =>
        /\ StoredByRun = RecordsOf(ui)
        /\ calls.upsert = (ui \div QDRANT_UPSERT_BATCH_SIZE) + 1

\* The second upsert of a run failed: the first batch is in the collection,
\* the rest of the points is not.
NoRollbackWitness ==
    /\ pc = "done"
    /\ response.status = 500
    /\ response.stage = "persistence"
    /\ ui = QDRANT_UPSERT_BATCH_SIZE
    /\ Len(points) > ui
    /\ Cardinality(StoredByRun) = QDRANT_UPSERT_BATCH_SIZE

\* C14 (baseId and recordId): in the records one run builds, the chunks of
\* one document carry one base id, two documents never share one, and no two
\* records have the same id.
BaseIdGroups ==
    /\ \A a, b \in 1..Len(chunk_rows) :
          (chunk_rows[a].youtubeVideoId = chunk_rows[b].youtubeVideoId)
              <=> (chunk_rows[a].baseId = chunk_rows[b].baseId)
    /\ \A a, b \in 1..Len(points) :
          /\ a # b => points[a].id # points[b].id
          /\ (points[a].payload.youtubeVideoId = points[b].payload.youtubeVideoId)
                <=> (points[a].payload.baseId = points[b].payload.baseId)
    /\ \A p, q \in store : p.id = q.id => p = q

\* The points of two documents, one of two chunks, ready for the upserts.
BaseIdGroupsWitness ==
    /\ pc = "upsert"
    /\ Len(points) = 3
    /\ points[1].payload.baseId = points[2].payload.baseId
    /\ points[2].payload.baseId # points[3].payload.baseId

\* C15 (configuration errors are fatal before the run starts): a run started
\* with QDRANT_URL, OPENAI_API_KEY or YOUTUBE_API_KEY missing raises before
\* any discovery request, scan, fetch, embedding or upsert, and leaves the
\* collection as it was.
ConfigErrorBeforeAnyCall ==
    [][(run' = run + 1 /\ missing_env' # {}) =>
          /\ pc' = "done"
          /\ response'.status = 500
          /\ response'.details = FirstMissing(missing_env') \o " is required"
          /\ calls' = NoCalls
          /\ store' = store]_vars

\* A run stopped by the missing YOUTUBE_API_KEY alone, the last variable
\* tested, on a collection an earlier run filled.
ConfigErrorWitness ==
    /\ missing_env = {"YOUTUBE_API_KEY"}
    /\ run >= 2
    /\ store # {}
    /\ response.status = 500
    /\ calls = NoCalls

----------------------------------------------------------------------------
(* Properties of the article scrapers, checked under SpecArticles *)

\* C4 (per-item fetch isolation in every article entry point): an exception
\* while fetching one article never aborts the run; every url is fetched and
\* the run reaches its upload loop and returns its results.
ArticleFetchIsolation ==
    /\ apc # "raised"
    /\ (apc \in {"upload", "done"} /\ urls # <<>>) => fetched = Len(urls)

----------------------------------------------------------------------------
(* Properties of the article upload loop, checked under SpecArticles *)

\* The entries of results["articles"] that carry a chunk count.
ListedWithChunks ==
    {k \in 1..Len(results.articles) : results.articles[k].field = "chunks"}

\* Every chunk of the k-th listed article was embedded and upserted.
FullyUploaded(k) ==
    \A i \in 0..(results.articles[k].n - 1) :
        /\ <<results.articles[k].url, i>> \in aembedded
        /\ <<results.articles[k].url, i>> \in apoints

\* An iteration of the upload loop in which the except clause ran.
CatchesException == caught' = caught + 1

\* C32 (article upload isolation): an article counted in success and listed
\* with its chunk count had every one of its chunks embedded and upserted;
\* an exception while embedding or upserting an article adds one to failed,
\* nothing to success, and the loop goes on; success + failed never exceeds
\* the number of discovered urls.
ArticleUploadIsolation ==
    /\ [](/\ \A k \in ListedWithChunks : FullyUploaded(k)
          /\ ~test_mode => /\ ListedWithChunks = 1..Len(results.articles)
                           /\ results.success = Len(results.articles)
          /\ results.success + results.failed <= Len(urls))
    /\ [][CatchesException =>
            /\ results'.failed = results.failed + 1
            /\ results'.success = results.success
            /\ results'.articles = results.articles
            /\ apc' = apc
            /\ apc \in {"upload", "loop"}]_vars

\* A run that listed one article with its two chunks and, before or after,
\* caught an exception on another that left one point behind.
ArticleUploadIsolationWitness ==
    /\ apc = "done"
    /\ ~test_mode
    /\ caught = 1
    /\ results.failed = 1
    /\ results.success = 1
    /\ \E k \in ListedWithChunks : results.articles[k].n = 2
    /\ Cardinality(apoints) = 3
    /\ Cardinality(aembedded) = 4
----------------------------------------------------------------------------
(* Properties of fetch_transcript_text, checked under SpecFetch *)

\* C17 (fallback fetch): a video is declared failed only after both methods
\* were called and failed, a text under 200 characters being a failure of
\* its method; the fallback is called only after the primary failed, and
\* the first method that succeeds gives the text returned.
FallbackBeforeFailure ==
    fpc = "done" =>
        /\ fresult.text = 0 =>
              /\ fattempts = <<"get_transcript", "fetch">>
              /\ fprimary.kind # "ok"
              /\ ffallback.kind # "ok"
        /\ Len(fattempts) = 2 => fprimary.kind # "ok"
        /\ fprimary.kind = "ok" => fresult.text = fprimary.text
        /\ (fprimary.kind # "ok" /\ ffallback.kind = "ok") => fresult.text = ffallback.text

----------------------------------------------------------------------------
(* Properties of get_existing_transcript_video_ids, checked under SpecScan *)

\* The identifier the rule gives for a point: the field, and the url only
\* when the field is absent.
RuleIds(payload) ==
    IF payload.contentType # "transcript" THEN {}
    ELSE IF payload.youtubeVideoId # 0 THEN {payload.youtubeVideoId}
    ELSE UrlId(payload)

\* C19 (dedup extraction rule): a matching point gives its youtubeVideoId,
\* and the id parsed from its sourceUrl only when it has no youtubeVideoId;
\* a point that has the field adds exactly one id to the set.
ExtractionRule ==
    seen = UNION {RuleIds(collection[k]) : k \in 1..total_processed}

\* The cursors a complete scan of the collection passes to scroll.
RECURSIVE CursorChain(_, _)
CursorChain(coll, cursor) ==
    IF Scroll(coll, cursor).next = 0 THEN <<cursor>>
    ELSE <<cursor>> \o CursorChain(coll, Scroll(coll, cursor).next)

\* C20 (dedup scan completeness): the scan asks for the pages in order, each
\* with the cursor the page before returned, stops at the first page that
\* returns no cursor, and returns exactly the ids of the transcript points
\* of the pages it visited; points of another content type add nothing.
ScanCompleteness ==
    /\ spc \in {"scroll", "done"} =>
          /\ \A k \in 1..Len(requested) :
                requested[k] = IF k = 1 THEN 0 ELSE Scroll(collection, requested[k - 1]).next
          /\ \A k \in 1..(Len(requested) - 1) : requested[k + 1] # 0
          /\ seen = UNION {FieldId(collection[k]) \cup UrlId(collection[k]) :
                              k \in {i \in 1..total_processed :
                                         collection[i].contentType = "transcript"}}
    /\ spc = "done" =>
          /\ requested = CursorChain(collection, 0)
          /\ total_processed = Len(collection)

\* A scan of two pages that met a transcript point and an article point, the
\* id of the article point staying out of the set.
ScanCompletenessWitness ==
    /\ spc = "done"
    /\ Len(requested) = 2
    /\ seen = {1}
    /\ \E k \in 1..Len(collection) :
          /\ collection[k].contentType = "article"
          /\ collection[k].youtubeVideoId = 2

----------------------------------------------------------------------------
(* Properties of two overlapping runs, checked under SpecOverlap *)

\* The base ids each video has in the collection the two runs share.
SharedVideoBaseIds == {<<p.youtubeVideoId, p.baseId>> : p \in ostore}

\* C16 as stated (overlapping runs): whatever the interleaving of the scans
\* and upserts of two concurrent runs, no video id has points under two
\* different base ids.
OverlapNeverDoubleIngest ==
    \A a, b \in SharedVideoBaseIds : a[1] = b[1] => a[2] = b[2]

\* C16 as amended: the same, for the interleavings in which no run scans
\* the collection between the scan and the last upsert of the other.
SerialNeverDoubleIngest ==
    ~overlapped => OverlapNeverDoubleIngest

\* Run 1 wrote the points of every recent video before run 2 scanned, and
\* run 2 found nothing new.
SerialNeverDoubleIngestWitness ==
    /\ ~overlapped
    /\ opc = [r \in Runs |-> "done"]
    /\ Len(orecent) >= 2
    /\ onew[1] = orecent
    /\ onew[2] = <<>>
    /\ \A p \in ostore : p.baseId[1] = 1

----------------------------------------------------------------------------
(* Properties of the chunker, checked under SpecChunk *)

RECURSIVE Flatten(_)
Flatten(ss) == IF ss = <<>> THEN <<>> ELSE Head(ss) \o Flatten(Tail(ss))

\* The sentences read back from a chunk's text.
ChunkSentences(k) == SplitSentences(chunks[k].text)

\* Chunk k without its leading overlap sentence (chunk 0 has none).
NewSentences(k) == IF k = 1 THEN ChunkSentences(k) ELSE Tail(ChunkSentences(k))

\* C9 (chunk coverage): when the chunker has returned, the chunks' sentences
\* in index order, minus the first sentence of every chunk but chunk 0, are
\* exactly the sentences of the input text, and every chunk after the first
\* begins with the last sentence of the chunk before it.
ChunkCoverage ==
    cpc = "done" =>
        /\ Flatten([k \in 1..Len(chunks) |-> NewSentences(k)]) = SplitSentences(text)
        /\ \A k \in 2..Len(chunks) :
              /\ ChunkSentences(k) # <<>>
              /\ Head(ChunkSentences(k)) = Last(ChunkSentences(k - 1))

\* A text cut into three chunks or more, each later one carrying its overlap.
ChunkCoverageWitness ==
    /\ cpc = "done"
    /\ Len(chunks) >= 3
    /\ Len(SplitSentences(text)) >= 3

\* The one chunk the bound exempts: a single sentence longer than the size.
OversizedAlone(k) ==
    Len(chunks[k].parts) = 1 /\ Len(chunks[k].parts[1]) > max_chunk_size

\* C10 (chunk bound): every chunk that is not a single oversized sentence has
\* a text of at most max_chunk_size characters plus the length of its leading
\* overlap sentence (chunk 0 has no overlap sentence).
ChunkBound ==
    cpc = "done" =>
        \A k \in 1..Len(chunks) :
            ~OversizedAlone(k) =>
                Len(chunks[k].text) <=
                    max_chunk_size + (IF k = 1 THEN 0 ELSE Len(chunks[k].parts[1]))

\* C11 (index contiguity): the chunks of one call carry the indexes 0, 1, ...,
\* n-1 in list order and every one of them reports total_chunks = n.
IndexContiguity ==
    cpc = "done" =>
        \A k \in 1..Len(chunks) :
            /\ chunks[k].index = k - 1
            /\ chunks[k].total_chunks = Len(chunks)

\* A call that returned two chunks, numbered 0 and 1 of 2.
IndexContiguityWitness ==
    /\ cpc = "done"
    /\ Len(chunks) = 2
    /\ chunks[2].index = 1
    /\ chunks[1].total_chunks = 2

\* C18 (oversized sentence): every sentence longer than max_chunk_size,
\* wherever it stands in the text, is a chunk of its own, and no chunk is
\* closed empty.
OversizedSentenceAlone ==
    cpc = "done" =>
        /\ \A i \in 1..Len(sentences) :
              Len(sentences[i]) > max_chunk_size =>
                  \E k \in 1..Len(chunks) : chunks[k].parts = <<sentences[i]>>
        /\ \A k \in 1..Len(chunks) : chunks[k].parts # <<>>

----------------------------------------------------------------------------
(* Stages, batches and results of the transcript sync, checked under Spec  *)

StageRank(stage) ==
    CASE stage = "fetch" -> 1
      [] stage = "build" -> 2
      [] stage = "embed" -> 3
      [] stage = "upsert" -> 4
      [] stage = "return" -> 5
      [] stage = "done" -> 6

\* The calls a run has made fit the order of the stages.
StageCalls ==
    /\ calls.scan <= calls.discover
    /\ calls.fetch > 0 => calls.scan = 1
    /\ calls.embed > 0 => (calls.fetch = Len(new_videos) /\ chunk_rows # <<>>)
    /\ calls.upsert > 0 =>
          /\ ei >= Len(chunk_rows)
          /\ Len(points) = Len(chunk_rows)
          /\ pc \in {"upsert", "return", "done"}

\* C21 (stage order): a run goes through discover, dedup scan, fetch, chunk,
\* embed, persist, done in that order and never back, and every embedding
\* call of the run is over before its first upsert.
StageOrder ==
    /\ []StageCalls
    /\ [][run' = run => StageRank(pc') >= StageRank(pc)]_vars

\* A run that took two embedding calls and then two upserts.
StageOrderWitness ==
    /\ pc = "return"
    /\ calls.embed = 2
    /\ calls.upsert = 2
    /\ Len(points) = 4

\* C22 (skip on empty input): with no new video the run makes no fetch,
\* embedding or upsert call and returns uploaded 0, failed 0 and skipped the
\* number of recent videos; when every fetch fails it makes no embedding or
\* upsert call and lists every new video as failed.
SkipOnEmpty ==
    (pc = "done" /\ response.status = 200) =>
        /\ new_videos = <<>> =>
              /\ calls.fetch = 0 /\ calls.embed = 0 /\ calls.upsert = 0
              /\ response.uploaded = 0 /\ response.failed = 0
              /\ response.skipped = Len(recent)
              /\ response.skipped = Cardinality(Known)
        /\ (new_videos # <<>> /\ transcript_rows = <<>>) =>
              /\ calls.embed = 0 /\ calls.upsert = 0
              /\ response.uploaded = 0
              /\ response.failed = Len(new_videos)
              /\ Listed(response, "failed") = Range(new_videos)
              /\ response.skipped = Cardinality(Known)

\* One video skipped and two new ones, both failing their fetch.
SkipOnEmptyWitness ==
    /\ pc = "done"
    /\ response.status = 200
    /\ Len(new_videos) = 2
    /\ transcript_rows = <<>>
    /\ response.skipped = 1
    /\ response.failed = 2

\* No position is sent in two calls of a log.
SentOnce(log) ==
    \A a, b \in 1..Len(log) : a # b => Range(log[a]) \cap Range(log[b]) = {}

\* C23 (no retry within a run): every new video has its primary method
\* called once and its fallback at most once, no video is fetched twice, and
\* every embedding batch and every persistence batch is submitted at most once.
NoRetry ==
    /\ calls.fetch = Min(fi, Len(new_videos))
    /\ calls.primary = calls.fetch
    /\ calls.fallback <= calls.fetch
    /\ Len(transcript_rows) + Len(failed_videos) = calls.fetch
    /\ Cardinality(Ids(transcript_rows) \cup Ids(failed_videos)) = calls.fetch
    /\ Len(embed_log) = calls.embed /\ SentOnce(embed_log)
    /\ Len(upsert_log) = calls.upsert /\ SentOnce(upsert_log)

\* Three videos fetched, one by its fallback and one failed by both methods,
\* and a second embedding call that raised.
NoRetryWitness ==
    /\ pc = "done"
    /\ calls.fetch = 3
    /\ calls.fallback = 2
    /\ Len(failed_videos) = 1
    /\ calls.embed = 2
    /\ response.status = 500

\* 1, 2, ..., n
UpTo(n) == [k \in 1..n |-> k]

\* C26 (embedding batching): the chunk texts go to the embedding service in
\* consecutive batches of at most EMBEDDING_BATCH_SIZE, every text in one
\* call and in order; the vector at position i of a response goes with the
\* chunk at position i of its batch; a completed run has one point per chunk.
EmbeddingBatching ==
    /\ \A c \in 1..Len(embed_log) :
          Len(embed_log[c]) >= 1 /\ Len(embed_log[c]) <= EMBEDDING_BATCH_SIZE
    /\ Flatten(embed_log) = UpTo(Len(Flatten(embed_log)))
    /\ \A k \in 1..Len(points) :
          points[k].vector = k /\ points[k].payload = chunk_rows[k]
    /\ (pc \in {"upsert", "return"} \/ (pc = "done" /\ response.status = 200)) =>
          /\ Len(points) = Len(chunk_rows)
          /\ Flatten(embed_log) = UpTo(Len(chunk_rows))

\* Three chunks embedded in a full batch and a last batch of one.
EmbeddingBatchingWitness ==
    /\ pc = "upsert"
    /\ embed_log = <<<<1, 2>>, <<3>>>>
    /\ Len(points) = 3

\* C27 (persistence batching): the points are written by upserts of at most
\* QDRANT_UPSERT_BATCH_SIZE points, one after the other; in a completed run
\* every point is in exactly one call, in the order the points were built.
PersistenceBatching ==
    /\ \A c \in 1..Len(upsert_log) :
          Len(upsert_log[c]) >= 1 /\ Len(upsert_log[c]) <= QDRANT_UPSERT_BATCH_SIZE
    /\ Flatten(upsert_log) = [k \in 1..Len(Flatten(upsert_log)) |-> points[k].id]
    /\ Len(upsert_log) >= 1 =>
          ui = (Len(upsert_log) - (IF pc = "done" /\ response.status = 500 THEN 1 ELSE 0))
                   * QDRANT_UPSERT_BATCH_SIZE
    /\ (pc = "return" \/ (pc = "done" /\ response.status = 200)) =>
          Len(Flatten(upsert_log)) = Len(points)

\* A completed run whose four points went out in two upserts.
PersistenceBatchingWitness ==
    /\ pc = "done"
    /\ response.status = 200
    /\ Len(upsert_log) = 2
    /\ Len(points) = 4
    /\ Len(upsert_log[2]) = 1

\* The records of a video in the collection.
RecordsOfVideo(id) == {p \in store : p.youtubeVideoId = id}

\* C30 (uploaded means persisted): every video a result lists as uploaded
\* with chunk count c has exactly c records in the collection, under one
\* base id, with chunkIndex 0..c-1 and totalChunks c.
UploadedMeansPersisted ==
    (pc = "done" /\ response.status = 200) =>
        \A k \in 1..Len(response.videos) :
            response.videos[k].status = "uploaded" =>
                LET recs == RecordsOfVideo(response.videos[k].id)
                    c == response.videos[k].chunks
                IN  /\ Cardinality(recs) = c
                    /\ Cardinality({p.baseId : p \in recs}) = 1
                    /\ {p.chunkIndex : p \in recs} = 0..(c - 1)
                    /\ \A p \in recs : p.totalChunks = c

\* A result listing a video of two chunks and a video of one as uploaded.
UploadedMeansPersistedWitness ==
    /\ pc = "done"
    /\ response.status = 200
    /\ response.uploaded = 2
    /\ response.videos[1].chunks = 2
    /\ response.videos[2].chunks = 1
    /\ Cardinality(StoredByRun) = 3

----------------------------------------------------------------------------
(* Termination of a run, checked under SpecLive *)

----------------------------------------------------------------------------
(* Small inputs of the chunker, checked under SpecChunk *)

\* C28 (small inputs): a text with no sentence gives no chunk; a text of one
\* sentence gives one chunk; a text whose sentences joined by single spaces
\* fit max_chunk_size gives one chunk, index 0, total_chunks 1, whose text is
\* that join.
SmallInputs ==
    cpc = "done" =>
        /\ SplitSentences(text) = <<>> => chunks = <<>>
        /\ Len(SplitSentences(text)) = 1 => Len(chunks) = 1
        /\ (SplitSentences(text) # <<>>
              /\ Len(Join(SplitSentences(text))) <= max_chunk_size) =>
                 /\ Len(chunks) = 1
                 /\ chunks[1].index = 0
                 /\ chunks[1].total_chunks = 1
                 /\ chunks[1].text = Join(SplitSentences(text))

\* Two sentences whose join fills max_chunk_size exactly, in one chunk.
SmallInputsWitness ==
    /\ cpc = "done"
    /\ Len(SplitSentences(text)) = 2
    /\ Len(Join(SplitSentences(text))) = max_chunk_size
    /\ Len(chunks) = 1

----------------------------------------------------------------------------
(* Properties of the fetch stage and its workers, checked under SpecPool *)

\* The positions whose call has returned.
Returned == {i \in 1..Len(pvideos) : pwrites[i] >= 1}

\* C24 (batch barrier and bounded parallelism): at most TRANSCRIPT_WORKERS
\* fetches are in flight, every fetch submitted or in flight belongs to the
\* current batch of at most TRANSCRIPT_BATCH_SIZE videos, and no fetch of a
\* batch starts before every fetch of the batch before it has finished.
BatchBarrier ==
    /\ Cardinality(prunning) <= TRANSCRIPT_WORKERS
    /\ Cardinality(BatchPositions(pvideos, pbi)) <= TRANSCRIPT_BATCH_SIZE
    /\ prunning \cup Range(pqueue) \subseteq BatchPositions(pvideos, pbi)
    /\ (prunning \cup Range(pqueue) # {}) => 1..pbi \subseteq Returned
    /\ Returned \subseteq 1..Min(pbi + TRANSCRIPT_BATCH_SIZE, Len(pvideos))

\* The fetch of the second batch in flight, the first batch over.
BatchBarrierWitness ==
    /\ pbi = TRANSCRIPT_BATCH_SIZE
    /\ prunning = {pbi + 1}
    /\ Returned = 1..pbi

\* C25 (interleaving independence): whatever the order in which the workers
\* finish, every result goes to the slot of its own video, once, and the
\* rows and failed entries returned are those of a sequential pass over the
\* videos with the same results.
InterleavingIndependence ==
    /\ \A i \in 1..Len(pvideos) : pwrites[i] <= 1
    /\ ppc = "done" =>
          /\ prows = BatchRows(pvideos, pslots)
          /\ pfailed = BatchFailed(pvideos, pslots)

\* The second video finished before the first one, with another result.
InterleavingIndependenceWitness ==
    /\ ppc = "done"
    /\ Len(pcompleted) = 3
    /\ pcompleted[1] = 2
    /\ pcompleted[2] = 1
    /\ pslots[1].text = 0
    /\ pslots[2].text = 2
    /\ Len(prows) = 2

\* How often a video is named in a list of rows or failed entries.
Occurrences(entries, id) == Cardinality({k \in 1..Len(entries) : entries[k].id = id})

\* Where a video stands in the input list.
PositionOf(videos, id) == CHOOSE i \in 1..Len(videos) : videos[i] = id

\* The entries name their videos in the order of the input list.
InInputOrder(entries, videos) ==
    \A j, k \in 1..Len(entries) :
        j < k => PositionOf(videos, entries[j].id) < PositionOf(videos, entries[k].id)

\* C31 (fetch result partition): when fetch_transcripts_batched returns,
\* every video of the input is named exactly once across the rows and the
\* failed entries, both lists keep the order of the input, and their lengths
\* add up to the length of the input.
FetchPartition ==
    ppc = "done" =>
        /\ \A i \in 1..Len(pvideos) :
              Occurrences(prows, pvideos[i]) + Occurrences(pfailed, pvideos[i]) = 1
        /\ Ids(prows) \cup Ids(pfailed) = Range(pvideos)
        /\ InInputOrder(prows, pvideos)
        /\ InInputOrder(pfailed, pvideos)
        /\ Len(prows) + Len(pfailed) = Len(pvideos)

\* Three videos, the first two failed in one batch and the third fetched.
FetchPartitionWitness ==
    /\ ppc = "done"
    /\ Len(pvideos) = 3
    /\ Ids(pfailed) = {pvideos[1], pvideos[2]}
    /\ Ids(prows) = {pvideos[3]}

----------------------------------------------------------------------------
(* Further properties of the chunker, checked under SpecChunk *)

\* What the transcript copy returns: the chunks without the model's record
\* of their sentences.
ReturnedChunks ==
    [k \in 1..Len(chunks) |->
        [text |-> chunks[k].text, index |-> chunks[k].index,
         total_chunks |-> chunks[k].total_chunks]]

\* C34 (chunker variants agree): for every text and every max_chunk_size the
\* transcript copy of chunk_text_with_overlap, which reseeds with
\* current_chunk[-1] unconditionally, returns the chunk list that the article
\* copies, which guard the reseed with an empty-string test, return.
ChunkerVariantsAgree ==
    cpc = "done" => ReturnedChunks = ArticleChunkText(text, max_chunk_size)

\* A call that reseeded: a second chunk opened with the overlap sentence.
ChunkerVariantsAgreeWitness ==
    /\ cpc = "done"
    /\ Len(chunks) >= 2
    /\ Len(chunks[2].parts) = 2
    /\ ReturnedChunks = ArticleChunkText(text, max_chunk_size)

\* C35 (chunk structure): every chunk holds at least one sentence, every
\* chunk after the first at least two (the overlap sentence and a new one),
\* and there are never more chunks than sentences.
ChunkStructure ==
    /\ \A k \in 1..Len(chunks) :
          /\ Len(chunks[k].parts) >= 1
          /\ k > 1 => Len(chunks[k].parts) >= 2
          /\ chunks[k].text = Join(chunks[k].parts)
    /\ Len(chunks) <= Len(sentences)
    /\ cpc = "loop" /\ chunks # <<>> => Len(current_chunk) >= 2

\* As many chunks as sentences, the later ones of two sentences each.
ChunkStructureWitness ==
    /\ cpc = "done"
    /\ Len(sentences) = 3
    /\ Len(chunks) = 3
    /\ Len(chunks[1].parts) = 1
    /\ Len(chunks[3].parts) = 2

\* C36 (length accounting): at the start of every iteration of the loop
\* current_length is the length of current_chunk's sentences joined by
\* single spaces, 0 for the empty chunk, after an append and after a reseed.
LengthAccounting ==
    cpc = "loop" => current_length = Len(Join(current_chunk))

\* An iteration that starts right after a reseed.
LengthAccountingWitness ==
    /\ cpc = "loop"
    /\ si <= Len(sentences)
    /\ chunks # <<>>
    /\ current_chunk = <<sentences[si - 2], sentences[si - 1]>>
    /\ current_length = Len(sentences[si - 2]) + Len(sentences[si - 1]) + 1

----------------------------------------------------------------------------
(* Properties of the HTTP entry points, checked under SpecHttp *)

\* C33 (authorization gate): in every HTTP entry point, with CRON_SECRET
\* configured a request whose Authorization header is not exactly
\* "Bearer <CRON_SECRET>" is answered 401 and no pipeline operation runs;
\* with CRON_SECRET not configured every request runs the pipeline.
AuthorizationGate ==
    hpc = "responded" =>
        /\ (~NoSecret(hsecret) /\ hheader # BearerOf(hsecret.value))
              => (hstatus = 401 /\ ~hran)
        /\ NoSecret(hsecret) => hran

====
